---- MODULE Spec2Model ----
(***************************************************************************)
(* A model of the caching reverse proxy: the request dispatcher            *)
(* (ProxyRequestHandler), the key derivation and the Redis-backed store    *)
(* (RedisCache), the stored-response encoding (CachedResponse) and the     *)
(* origin forwarder (HTTPClient).                                          *)
(*                                                                         *)
(* Python values are represented as follows.                               *)
(*   str        a TLA+ string; concatenation is \o                         *)
(*   bytes      a sequence of byte values 0..255                           *)
(*   dict       a sequence of <<key, value>> pairs in insertion order,     *)
(*              with pairwise distinct keys                                *)
(*   None       for a headers argument, the empty sequence                 *)
(***************************************************************************)
EXTENDS Bags, FiniteSets, Integers, Sequences, TLC

VARIABLES
    store,      \* the Redis keyspace: a function from key to stored text
    redis,      \* RedisCache._redis: TRUE when a client is set, FALSE when None
    inflight,   \* bag of the requests suspended at an await of the handler
    out,        \* what the step just taken did for its request: the lookup made,
                \* the call sent to the origin, the response returned
    lastSaved,  \* history: key -> the body handed to the latest save that succeeded
    kMethod, kUrl, kHeaders,   \* the arguments of generate_key under KeySpec
    kKey0,      \* the key of the arguments KeySpec started from
    kKey,       \* the key of the arguments as they are now
    kLast,      \* the change made last to the arguments
    call,       \* under PureSpec: a function of the program, its arguments and,
                \* once it was applied, its result
    ret,        \* under StoreSpec: the store operation made last and its result
    watched     \* under LiveSpec: one request in flight, followed until it is
                \* answered

vars == <<store, redis, inflight, out, lastSaved,
          kMethod, kUrl, kHeaders, kKey0, kKey, kLast, call, ret, watched>>

dispatcherVars == <<store, redis, inflight, out, lastSaved>>
keyVars == <<kMethod, kUrl, kHeaders, kKey0, kKey, kLast>>

-----------------------------------------------------------------------------
(* Bounds *)

\* the number of requests the handler has suspended at an await at one time
MaxInFlight == 2

\* the number of entries of a headers dict handed to generate_key under KeySpec
MaxKeyHeaders == 3

\* the number of entries of a headers dict handed to a function under PureSpec
MaxHeaders == 2

\* the number of bytes of a body encoded and decoded under PureSpec
MaxBody == 4

-----------------------------------------------------------------------------
(* Program constants *)

CACHE_HIT_HEADER == "X-Cache"
CACHE_HIT_VALUE == "HIT"
CACHE_MISS_VALUE == "MISS"
CACHE_KEY_PREFIX == "proxy:cache"
SAVE_TTL == 3600

-----------------------------------------------------------------------------
(* str.lower() and str.upper() on the strings of the model *)

lower(s) ==
    CASE s = "Accept"           -> "accept"
      [] s = "ACCEPT"           -> "accept"
      [] s = "Accept-Encoding"  -> "accept-encoding"
      [] s = "ACCEPT-ENCODING"  -> "accept-encoding"
      [] s = "Accept-Language"  -> "accept-language"
      [] s = "Host"             -> "host"
      [] s = "HOST"             -> "host"
      [] s = "User-Agent"       -> "user-agent"
      [] s = "USER-AGENT"       -> "user-agent"
      [] s = "Content-Type"     -> "content-type"
      [] s = "Content-Length"   -> "content-length"
      [] s = "Cache-Control"    -> "cache-control"
      [] s = "Set-Cookie"       -> "set-cookie"
      [] s = "X-Cache"          -> "x-cache"
      [] s = "X-Secret"         -> "x-secret"
      [] s = "Vary"             -> "vary"
      [] s = "Connection"       -> "connection"
      [] s = "TE"               -> "te"
      [] s = "Transfer-Encoding" -> "transfer-encoding"
      [] s = "Upgrade"          -> "upgrade"
      [] s = "X-Custom"         -> "x-custom"
      [] OTHER                  -> s

upper(s) ==
    CASE s = "get"    -> "GET"
      [] s = "Get"    -> "GET"
      [] s = "post"   -> "POST"
      [] s = "Post"   -> "POST"
      [] OTHER        -> s

-----------------------------------------------------------------------------
(* dict operations *)

DictHas(d, k) == \E i \in 1..Len(d) : d[i][1] = k

\* d[k]: the value under a key that is present
DictGet(d, k) == d[CHOOSE i \in 1..Len(d) : d[i][1] = k][2]

\* d[k] = v: replaces the value in place, or appends a new entry
DictSet(d, k, v) ==
    IF DictHas(d, k)
    THEN [i \in 1..Len(d) |-> IF d[i][1] = k THEN <<k, v>> ELSE d[i]]
    ELSE Append(d, <<k, v>>)

\* d.pop(k, None): removes the entry whose key is exactly k
DictPop(d, k) == SelectSeq(d, LAMBDA p : p[1] # k)

\* str.join
RECURSIVE join(_, _)
join(sep, parts) ==
    IF Len(parts) = 0 THEN ""
    ELSE IF Len(parts) = 1 THEN parts[1]
    ELSE parts[1] \o sep \o join(sep, Tail(parts))

-----------------------------------------------------------------------------
(* RedisCache.generate_key *)

relevant_headers == <<"accept", "accept-encoding", "accept-language">>

\* hashlib.sha256(...).hexdigest(): an injective, opaque digest of the string
sha256_hexdigest(s) == "sha256(" \o s \o ")"

\* header_part with the names compared as they are
header_part_case_sensitive(headers, header) ==
    LET header_lower == lower(header)
        matches == {i \in 1..Len(headers) : headers[i][1] = header_lower}
    IN  IF matches = {} THEN <<>>
        ELSE LET first == CHOOSE i \in matches : \A j \in matches : i <= j
             IN  << header_lower \o ":" \o headers[first][2] >>

\* the inner loop: the part appended for one relevant header, from the first
\* entry of the dict whose lower-cased key matches; none when no entry matches
header_part(headers, header) ==
    LET header_lower == lower(header)
        matches == {i \in 1..Len(headers) : lower(headers[i][1]) = header_lower}
    IN  IF matches = {} THEN <<>>
        ELSE LET first == CHOOSE i \in matches : \A j \in matches : i <= j
             IN  << header_lower \o ":" \o headers[first][2] >>

\* the pre-hash string: the parts joined with "|"
key_string(method, url, headers) ==
    LET key_parts ==
            << upper(method), url >>
            \o (IF headers # <<>>
                THEN header_part(headers, relevant_headers[1])
                     \o header_part(headers, relevant_headers[2])
                     \o header_part(headers, relevant_headers[3])
                ELSE <<>>)
    IN  join("|", key_parts)

generate_key(method, url, headers) ==
    sha256_hexdigest(key_string(method, url, headers))

_get_prefix_with_key(key) == CACHE_KEY_PREFIX \o key

-----------------------------------------------------------------------------
(* CachedResponse and its storage encoding *)

\* the dataclass CachedResponse(status_code, headers, body)
CachedResponse(status_code, headers, body) ==
    [status_code |-> status_code, headers |-> headers, body |-> body]

\* Base64 text is a sequence of alphabet indices 0..63, with Pad for "=".
\* The utf-8 decode and encode of such ASCII text leave it as it is.
Pad == 64

RECURSIVE b64encode(_)
b64encode(b) ==
    IF Len(b) = 0 THEN <<>>
    ELSE IF Len(b) = 1 THEN
        << b[1] \div 4, (b[1] % 4) * 16, Pad, Pad >>
    ELSE IF Len(b) = 2 THEN
        << b[1] \div 4, (b[1] % 4) * 16 + b[2] \div 16, (b[2] % 16) * 4, Pad >>
    ELSE
        << b[1] \div 4, (b[1] % 4) * 16 + b[2] \div 16,
           (b[2] % 16) * 4 + b[3] \div 64, b[3] % 64 >>
        \o b64encode(SubSeq(b, 4, Len(b)))

\* b64decode_bytes with every byte cut to seven bits
RECURSIVE b64decode_bytes_ascii(_)
b64decode_bytes_ascii(s) ==
    IF Len(s) < 4 THEN <<>>
    ELSE IF s[3] = Pad THEN
        << (s[1] * 4 + s[2] \div 16) % 128 >>
    ELSE IF s[4] = Pad THEN
        << (s[1] * 4 + s[2] \div 16) % 128,
           ((s[2] % 16) * 16 + s[3] \div 4) % 128 >>
    ELSE
        << (s[1] * 4 + s[2] \div 16) % 128,
           ((s[2] % 16) * 16 + s[3] \div 4) % 128,
           ((s[3] % 4) * 64 + s[4]) % 128 >>
        \o b64decode_bytes_ascii(SubSeq(s, 5, Len(s)))

\* the bytes of well-padded base64 text; parsing stops after a padded group
RECURSIVE b64decode_bytes(_)
b64decode_bytes(s) ==
    IF Len(s) < 4 THEN <<>>
    ELSE IF s[3] = Pad THEN
        << s[1] * 4 + s[2] \div 16 >>
    ELSE IF s[4] = Pad THEN
        << s[1] * 4 + s[2] \div 16, (s[2] % 16) * 16 + s[3] \div 4 >>
    ELSE
        << s[1] * 4 + s[2] \div 16, (s[2] % 16) * 16 + s[3] \div 4,
           (s[3] % 4) * 64 + s[4] >>
        \o b64decode_bytes(SubSeq(s, 5, Len(s)))

\* base64.b64decode: raises binascii.Error when the text is not made of whole
\* groups of four
b64decode(s) ==
    IF Len(s) % 4 # 0 \/ (\E i \in 1..Len(s) : s[i] = Pad /\ i % 4 \in {1, 2})
    THEN [raised |-> TRUE, value |-> <<>>]
    ELSE [raised |-> FALSE, value |-> b64decode_bytes(s)]

\* A JSON object of the stored form: the names it has, and their values.
AllFields == {"status_code", "headers", "body"}

to_dict(self) ==
    [fields |-> AllFields,
     status_code |-> self.status_code,
     headers |-> self.headers,
     body |-> b64encode(self.body)]

\* from_dict with the body left as the base64 text
from_dict_undecoded(data) ==
    [raised |-> data.fields # AllFields,
     value |-> CachedResponse(data.status_code, data.headers, data.body)]

\* from_dict: data["body"] and the other lookups raise KeyError on a missing
\* name, b64decode raises on an invalid encoding
from_dict(data) ==
    IF "body" \notin data.fields
    THEN [raised |-> TRUE, value |-> CachedResponse(0, <<>>, <<>>)]
    ELSE LET body_in_bytes == b64decode(data.body)
         IN  IF body_in_bytes.raised \/ data.fields # AllFields
             THEN [raised |-> TRUE, value |-> CachedResponse(0, <<>>, <<>>)]
             ELSE [raised |-> FALSE,
                   value |-> CachedResponse(data.status_code, data.headers,
                                            body_in_bytes.value)]

\* json.dumps: the text of a JSON object; wellformed is FALSE for text that
\* json.loads rejects
json_dumps(d) == [wellformed |-> TRUE, value |-> d]

\* json.loads: raises JSONDecodeError on text that is not JSON
json_loads(text) ==
    [raised |-> ~text.wellformed, value |-> text.value]

-----------------------------------------------------------------------------
(* RedisCache: the store.  Each operation takes the keyspace and returns the  *)
(* keyspace it leaves, with its result.  send_fails says that the Redis       *)
(* command the operation sends raises (connection lost, timeout).             *)

NoneCached == CachedResponse(0, <<>>, <<>>)

\* the message of the RuntimeError raised while _redis is None
NotInitialized == "Redis connection is not initialized. Please run initialize()"

\* Without that drops every key (FLUSHDB)
Without_all(st, k) == << >>

\* the keyspace without key k (DEL, or the expiry of the key)
Without(st, k) == [x \in (DOMAIN st) \ {k} |-> st[x]]

\* With that leaves a key that is set as it is (SET with NX)
With_if_absent(st, k, text, ttl) ==
    [x \in (DOMAIN st) \cup {k} |->
        IF x \in DOMAIN st THEN st[x] ELSE [data |-> text, ttl |-> ttl]]

\* the keyspace with k set (SET, SETEX)
With(st, k, text, ttl) ==
    [x \in (DOMAIN st) \cup {k} |->
        IF x = k THEN [data |-> text, ttl |-> ttl] ELSE st[x]]

get(st, conn, key, send_fails, delete_fails) ==
    IF ~conn
    THEN [raised |-> TRUE, found |-> FALSE, value |-> NoneCached, store |-> st]
    ELSE
    LET prefixed_key == _get_prefix_with_key(key)
        none == [raised |-> FALSE, found |-> FALSE, value |-> NoneCached, store |-> st]
    IN  IF send_fails THEN none
        ELSE IF prefixed_key \notin DOMAIN st THEN none
        ELSE LET cached_dict == json_loads(st[prefixed_key].data)
             IN  IF cached_dict.raised
                 THEN \* except json.JSONDecodeError: the entry is deleted
                      IF delete_fails
                      THEN [none EXCEPT !.raised = TRUE]
                      ELSE [none EXCEPT !.store = Without(st, prefixed_key)]
                 ELSE LET r == from_dict(cached_dict.value)
                      IN  IF r.raised THEN none
                          ELSE [raised |-> FALSE, found |-> TRUE,
                                value |-> r.value, store |-> st]

\* SCAN with match = prefix*: the keys of the keyspace that are the prefix
\* followed by one of the given names, or the prefix alone
scan(st, prefix, names) ==
    { k \in DOMAIN st : k = prefix \/ \E n \in names : k = prefix \o n }

TypeError == "argument after ** must be a mapping, not list"

\* RedisCache.clear: without a client RuntimeError is raised.  The keys that
\* match proxy:cache* are scanned; when there are some, delete(**keys) is
\* evaluated with keys a list, which raises TypeError before any command is
\* sent; the except branch logs and raises again.  Nothing is ever deleted.
clear(st, conn, names, scan_fails) ==
    IF ~conn
    THEN [raised |-> TRUE, error |-> NotInitialized, store |-> st]
    ELSE IF scan_fails
    THEN [raised |-> TRUE, error |-> "scan", store |-> st]
    ELSE LET keys == scan(st, CACHE_KEY_PREFIX, names)
         IN  IF keys # {}
             THEN [raised |-> TRUE, error |-> TypeError, store |-> st]
             ELSE [raised |-> FALSE, error |-> "", store |-> st]

\* set that returns before the Redis command was sent
set_deferred(st, conn, key, value, ttl, send_fails) ==
    [raised |-> ~conn, store |-> st]

\* set with the failure of the Redis command raised to the caller
set_raising(st, conn, key, value, ttl, send_fails) ==
    IF ~conn \/ send_fails
    THEN [raised |-> TRUE, store |-> st]
    ELSE [raised |-> FALSE,
          store |-> With(st, _get_prefix_with_key(key), json_dumps(to_dict(value)), ttl)]

set(st, conn, key, value, ttl, send_fails) ==
    IF ~conn
    THEN [raised |-> TRUE, store |-> st]
    ELSE
    LET prefixed_key == _get_prefix_with_key(key)
        serialized == json_dumps(to_dict(value))
    IN  IF send_fails
        THEN [raised |-> FALSE, store |-> st]
        ELSE [raised |-> FALSE,
              \* SETEX with the ttl; SET, and no expiry (0), without one
              store |-> With(st, prefixed_key, serialized, ttl)]

\* ICachedStorage.save_value, the write the handler calls
save_value(st, conn, key, value, ttl, send_fails) ==
    set(st, conn, key, value, ttl, send_fails)

-----------------------------------------------------------------------------
(* HTTPClient: the forwarder *)

blocked_headers ==
    {"host", "connection", "keep-alive", "proxy-connection",
     "proxy-authenticate", "proxy-authorization", "te", "trailers",
     "transfer-encoding", "upgrade"}

\* _sanitize_headers with the names compared as they are
_sanitize_headers_case_sensitive(headers) ==
    SelectSeq(headers, LAMBDA p : p[1] \notin blocked_headers)

_sanitize_headers(headers) ==
    SelectSeq(headers, LAMBDA p : lower(p[1]) \notin blocked_headers)

\* what forward_request sends to the origin
forward_request(path, method, headers, body) ==
    LET safe_headers == DictSet(_sanitize_headers(headers),
                                "Accept-Encoding", "gzip, deflate")
    IN  [method |-> upper(method), path |-> path, headers |-> safe_headers,
         data |-> body]

\* what the await of forward_request gives back: the origin's response, or a
\* raised aiohttp.ClientError / asyncio.TimeoutError
Returned(status, headers, body) ==
    [ok |-> TRUE, status |-> status, headers |-> headers, body |-> body,
     error |-> ""]

Raised(e) ==
    [ok |-> FALSE, status |-> 0, headers |-> <<>>, body |-> <<>>, error |-> e]

-----------------------------------------------------------------------------
(* ProxyRequestHandler: the responses *)

\* str(len(body))
str(n) ==
    CASE n = 0 -> "0" [] n = 1 -> "1" [] n = 2 -> "2" [] n = 3 -> "3"
      [] n = 4 -> "4" [] OTHER -> "many"

safe_headers ==
    {"content-type", "date", "server", "access-control-allow-origin",
     "strict-transport-security", "x-content-type-options",
     "x-frame-options", "x-xss-protection", "cache-control",
     "age", "cf-cache-status", "cf-ray", "vary"}

\* web.Response(status, headers, body) and web.Response(status, text, headers)
Response(status, headers, body, text) ==
    [status |-> status, headers |-> headers, body |-> body, text |-> text]

\* _build_response with every header of the origin copied
_build_response_unfiltered(status_code, headers, body, cache_hit) ==
    LET with_cache == DictSet(headers, CACHE_HIT_HEADER,
                              IF cache_hit THEN CACHE_HIT_VALUE ELSE CACHE_MISS_VALUE)
        response_headers == DictSet(with_cache, "Content-Length", str(Len(body)))
    IN  Response(status_code, response_headers, body, "")

_build_response(status_code, headers, body, cache_hit) ==
    LET copied == SelectSeq(headers, LAMBDA p : lower(p[1]) \in safe_headers)
        with_cache == DictSet(copied, CACHE_HIT_HEADER,
                              IF cache_hit THEN CACHE_HIT_VALUE ELSE CACHE_MISS_VALUE)
        response_headers == DictSet(with_cache, "Content-Length", str(Len(body)))
    IN  Response(status_code, response_headers, body, "")

_build_response_from_cache(cached, cache_hit) ==
    LET copied == SelectSeq(cached.headers, LAMBDA p : lower(p[1]) \in safe_headers)
        with_cache == DictSet(copied, CACHE_HIT_HEADER,
                              IF cache_hit THEN CACHE_HIT_VALUE ELSE CACHE_MISS_VALUE)
        response_headers == DictSet(with_cache, "Content-Length", str(Len(cached.body)))
    IN  Response(cached.status_code, response_headers, cached.body, "")

\* the policy that also refuses Set-Cookie and Cache-Control: no-store, private
_should_cache_response_strict(status, headers) ==
    /\ status = 200
    /\ ~DictHas(headers, "Set-Cookie")
    /\ DictHas(headers, "Cache-Control")
          => DictGet(headers, "Cache-Control") \notin {"no-store", "private"}

\* the policy that stores every response
_should_cache_response_any(status, headers) == TRUE

_should_cache_response(status, headers) ==
    IF status = 200 THEN TRUE ELSE FALSE

\* the 502 without the X-Cache header
bad_gateway_unmarked(e) ==
    Response(502, <<>>, <<>>, "Bad gateway : " \o e)

\* the except branch of handle_request
bad_gateway(e) ==
    Response(502, << <<CACHE_HIT_HEADER, CACHE_MISS_VALUE>> >>, <<>>,
             "Bad gateway : " \o e)

\* the except branch of _forward_non_cacheable
bad_gateway_non_cacheable(e) ==
    Response(502, <<>>, <<>>, "Bad Gateway: " \o e)

-----------------------------------------------------------------------------
(* The inputs *)

Methods == {"GET", "POST"}

Paths == {"/items?id=1"}

\* request headers as received, in the casing the client sent
RequestHeaders ==
    { << <<"Accept-Encoding", "gzip">>, <<"Host", "proxy">> >>,
      << <<"accept-encoding", "gzip">>, <<"Host", "proxy">> >> }

\* the request's body: none (the empty sequence stands for None), or some bytes
RequestBodies == { <<>>, <<123, 125>> }

Statuses == {200, 404}

\* what the origin serves: its headers with its body ("hi", and one byte that
\* is not UTF-8)
Representations ==
    { << << <<"Content-Type", "text/plain">>, <<"X-Secret", "s">> >>,
         <<104, 105>> >>,
      << << <<"Set-Cookie", "x">>, <<"Cache-Control", "no-store">>,
            <<"X-Cache", "HIT">>, <<"Content-Length", "99">> >>,
         <<255>> >> }

Bodies == { rep[2] : rep \in Representations }

Errors == {"timeout"}

ForwardResults ==
    { Returned(st, rep[1], rep[2]) : st \in Statuses, rep \in Representations }
    \cup { Raised(e) : e \in Errors }

-----------------------------------------------------------------------------
(* The dispatcher's state *)

\* out when no step has been taken for a request
NoResponse ==
    [step |-> "none", valid |-> FALSE, raised |-> FALSE,
     method |-> "", path |-> "", received |-> <<>>, cache_key |-> "",
     lookup |-> "none", get_failed |-> FALSE, entry_absent |-> FALSE,
     purged |-> FALSE,
     cached |-> NoneCached, forward_calls |-> 0, origin |-> Raised(""),
     save_called |-> FALSE, save_failed |-> FALSE,
     store_reads |-> 0, store_writes |-> 0,
     saved_at_lookup |-> {}, replaced |-> {},
     sent |-> [method |-> "", path |-> "", headers |-> <<>>, data |-> <<>>],
     response |-> Response(0, <<>>, <<>>, "")]

\* the body last saved under a key
SavedFor(k) == IF k \in DOMAIN lastSaved THEN {lastSaved[k]} ELSE {}

\* the context of a request r: out for a step of r that returns no response
Context(step, r) ==
    [NoResponse EXCEPT
        !.step = step, !.method = r.method, !.path = r.path,
        !.received = r.received, !.cache_key = r.cache_key,
        !.lookup = IF r.pc = "forward_nc" THEN "none" ELSE "miss",
        !.entry_absent = r.entry_absent, !.purged = r.purged,
        !.forward_calls = r.forward_calls,
        !.store_reads = r.store_reads, !.store_writes = r.store_writes]

\* out for a step of r that returns the response resp
Returns(step, r, resp) == [Context(step, r) EXCEPT !.valid = TRUE, !.response = resp]

Suspend(r) == inflight' = inflight (+) SetToBag({r})
Resume(r, next) == inflight' = (inflight (-) SetToBag({r})) (+) next
Finished == EmptyBag

DispatcherInit ==
    /\ store = << >>
    /\ redis = TRUE
    /\ inflight = EmptyBag
    /\ out = NoResponse
    /\ lastSaved = << >>

-----------------------------------------------------------------------------
(* ProxyRequestHandler.handle_request, one action for each stretch of code  *)
(* between two awaits                                                       *)

\* from the arrival of the request to the reply of the store's get and, on a
\* miss, the call of the forwarder (GET), or to the call of the forwarder (any
\* other method)
handle_request(method, path, received, body, get_fails, delete_fails) ==
    /\ BagCardinality(inflight) < MaxInFlight
    /\ LET headers == DictPop(received, "Accept-Encoding")
           base == [pc |-> "forward_nc", method |-> method, path |-> path,
                    received |-> received, headers |-> headers,
                    cache_key |-> "",
                    status |-> 0, resp_headers |-> <<>>, resp_body |-> <<>>,
                    entry_absent |-> FALSE, purged |-> FALSE,
                    forward_calls |-> 1, store_reads |-> 0, store_writes |-> 0]
           sent == forward_request(path, method, headers, body)
       IN  IF upper(method) # "GET"
           THEN /\ Suspend(base)
                /\ out' = [Context("handle_request", base) EXCEPT !.sent = sent]
                /\ UNCHANGED <<store, redis, lastSaved>>
           ELSE
           LET cache_key == generate_key(method, path, headers)
               k == _get_prefix_with_key(cache_key)
               cached_response == get(store, redis, cache_key, get_fails, delete_fails)
               r == [base EXCEPT !.pc = "forward", !.cache_key = cache_key,
                                 !.entry_absent = (k \notin DOMAIN store),
                                 \* get deleted the entry it could not decode
                                 !.purged = (cached_response.store # store),
                                 !.store_reads = 1]
               looked == [Context("handle_request", r) EXCEPT
                             !.get_failed = get_fails,
                             !.saved_at_lookup = SavedFor(k)]
           IN  /\ store' = cached_response.store
               /\ UNCHANGED <<redis, lastSaved>>
               /\ IF cached_response.raised
                  THEN \* the exception leaves the handler: no response of its own
                       /\ out' = [looked EXCEPT !.raised = TRUE, !.forward_calls = 0]
                       /\ UNCHANGED inflight
                  ELSE IF cached_response.found
                  THEN /\ out' = [looked EXCEPT
                                    !.valid = TRUE,
                                    !.lookup = "hit",
                                    !.forward_calls = 0,
                                    !.cached = cached_response.value,
                                    !.response = _build_response_from_cache(
                                                    cached_response.value, TRUE)]
                       /\ UNCHANGED inflight
                  ELSE /\ Suspend(r)
                       /\ out' = [looked EXCEPT !.sent = sent]

\* forward_failed with the forward made once more before the 502
forward_failed_retrying(r, result) ==
    IF r.forward_calls < 2
    THEN LET again == [r EXCEPT !.forward_calls = r.forward_calls + 1]
         IN  /\ Resume(r, SetToBag({again}))
             /\ out' = [Context("forward_returns", again) EXCEPT !.origin = result]
    ELSE /\ Resume(r, Finished)
         /\ out' = [Returns("forward_returns", r, bad_gateway(result.error))
                       EXCEPT !.origin = result]

\* forward_failed with the forward made again, as long as it fails
forward_failed_waiting(r, result) ==
    /\ Resume(r, SetToBag({r}))
    /\ out' = [Context("forward_returns", r) EXCEPT !.origin = result]

\* the except branch of handle_request: the forward raised, the 502 is returned
forward_failed(r, result) ==
    /\ Resume(r, Finished)
    /\ out' = [Returns("forward_returns", r, bad_gateway(result.error))
                  EXCEPT !.origin = result]

\* the forwarder answers a GET that missed: the response is returned, or the
\* save is called
forward_returns(r, result) ==
    /\ r.pc = "forward"
    /\ UNCHANGED <<store, redis, lastSaved>>
    /\ IF ~result.ok
       THEN forward_failed(r, result)
       ELSE IF _should_cache_response(result.status, result.headers)
       THEN LET saving == [r EXCEPT !.pc = "save",
                                    !.status = result.status,
                                    !.resp_headers = result.headers,
                                    !.resp_body = result.body]
            IN  /\ Resume(r, SetToBag({saving}))
                /\ out' = [Context("forward_returns", saving) EXCEPT !.origin = result,
                                                  !.save_called = TRUE]
           ELSE /\ Resume(r, Finished)
            /\ out' = [Returns("forward_returns", r,
                                  _build_response(result.status, result.headers,
                                                  result.body, FALSE))
                          EXCEPT !.origin = result]

\* the store answers the save: the response is returned
save_returns(r, send_fails) ==
    /\ r.pc = "save"
    /\ LET cached == CachedResponse(r.status, r.resp_headers, r.resp_body)
           k == _get_prefix_with_key(r.cache_key)
           saved == save_value(store, redis, r.cache_key, cached, SAVE_TTL, send_fails)
           origin == Returned(r.status, r.resp_headers, r.resp_body)
           response == IF saved.raised
                       THEN bad_gateway(NotInitialized)
                       ELSE _build_response(r.status, r.resp_headers, r.resp_body, FALSE)
       IN  /\ store' = saved.store
           /\ Resume(r, Finished)
           /\ UNCHANGED redis
           /\ out' = [Returns("save_returns", r, response) EXCEPT
                         !.origin = origin, !.save_called = TRUE,
                         !.save_failed = send_fails \/ saved.raised,
                         !.replaced = IF k \in DOMAIN store
                                      THEN {store[k].data.value.body} ELSE {},
                         !.store_writes = 1]
           /\ lastSaved' = IF send_fails \/ saved.raised THEN lastSaved
                           ELSE [x \in (DOMAIN lastSaved) \cup {k} |->
                                    IF x = k THEN r.resp_body ELSE lastSaved[x]]

\* ProxyRequestHandler._forward_non_cacheable: the forwarder answers
_forward_non_cacheable(r, result) ==
    /\ r.pc = "forward_nc"
    /\ Resume(r, Finished)
    /\ UNCHANGED <<store, redis, lastSaved>>
    /\ out' = [Returns("_forward_non_cacheable", r,
                       IF result.ok
                          THEN _build_response(result.status, result.headers,
                                               result.body, FALSE)
                          ELSE bad_gateway_non_cacheable(result.error))
                  EXCEPT !.origin = result]

\* cancelled with the handler shielded from the cancellation: the request
\* stays in flight and goes on
cancelled_shielded(r) ==
    /\ r.pc \in {"forward", "forward_nc"}
    /\ UNCHANGED <<store, redis, lastSaved, inflight>>
    /\ out' = [Context("cancelled", r) EXCEPT !.raised = TRUE]

\* the task of a request is cancelled while it awaits forward_request:
\* asyncio.CancelledError is raised at the await; it is no Exception, so that
\* neither except branch catches it, and it leaves the handler.  The forward
\* is abandoned and no statement after the await is run.
cancelled(r) ==
    /\ r.pc \in {"forward", "forward_nc"}
    /\ Resume(r, Finished)
    /\ UNCHANGED <<store, redis, lastSaved>>
    /\ out' = [Context("cancelled", r) EXCEPT !.raised = TRUE]

\* Redis drops an entry whose time to live has run out
Expire(k) ==
    /\ k \in DOMAIN store
    /\ store[k].ttl > 0
    /\ store' = Without(store, k)
    /\ lastSaved' = [x \in (DOMAIN lastSaved) \ {k} |-> lastSaved[x]]
    /\ out' = NoResponse
    /\ UNCHANGED <<redis, inflight>>

KeyIdle ==
    /\ kMethod = "" /\ kUrl = "" /\ kHeaders = <<>>
    /\ kKey0 = "" /\ kKey = "" /\ kLast = "none"

\* no function is being applied, no store operation was made
NoCall == [fn |-> "none", applied |-> FALSE]
NoRet == [op |-> "none"]

\* no request is followed
NoRequest == [pc |-> "none"]

PureIdle == call = NoCall
StoreIdle == ret = NoRet
LiveIdle == watched = NoRequest

outsideLive == <<keyVars, call, ret>>
outsideDispatcher == <<keyVars, call, ret, watched>>
outsideKey == <<dispatcherVars, call, ret, watched>>
outsidePure == <<dispatcherVars, keyVars, ret, watched>>
outsideStore == <<inflight, out, lastSaved, keyVars, call, watched>>

Init ==
    /\ DispatcherInit
    /\ KeyIdle
    /\ PureIdle
    /\ StoreIdle
    /\ LiveIdle

Next ==
    \/ \E m \in Methods, p \in Paths, h \in RequestHeaders,
          b \in RequestBodies, f \in BOOLEAN :
          \* every entry is one the dispatcher saved: get has nothing to delete
          handle_request(m, p, h, b, f, FALSE) /\ UNCHANGED outsideDispatcher
    \/ \E r \in BagToSet(inflight), res \in ForwardResults :
          forward_returns(r, res) /\ UNCHANGED outsideDispatcher
    \/ \E r \in BagToSet(inflight), f \in BOOLEAN :
          save_returns(r, f) /\ UNCHANGED outsideDispatcher
    \/ \E r \in BagToSet(inflight), res \in ForwardResults :
          _forward_non_cacheable(r, res) /\ UNCHANGED outsideDispatcher
    \/ \E r \in BagToSet(inflight) : cancelled(r) /\ UNCHANGED outsideDispatcher
    \/ \E k \in DOMAIN store : Expire(k) /\ UNCHANGED outsideDispatcher

Spec == Init /\ [][Next]_vars

-----------------------------------------------------------------------------
(* LiveSpec: the dispatcher with one of its requests followed from its      *)
(* arrival to its response, and every call that request awaits returning    *)
(* or failing in the end                                                    *)

\* the requests that arrive and the results of the forwarder under LiveSpec:
\* no body, one representation of the origin with each status, and the failure
LiveRequestBodies == { b \in RequestBodies : Len(b) = 0 }
LiveForwardResults == { res \in ForwardResults : res.ok => res.body = <<104, 105>> }

\* the request a step put in flight: the record inflight' has one more of
Added ==
    { r \in BagToSet(inflight') : CopiesIn(r, inflight') > CopiesIn(r, inflight) }

\* a request arrives; it may become the one followed when none is
Arrives ==
    /\ \E m \in Methods, p \in Paths, h \in RequestHeaders,
          b \in LiveRequestBodies, f \in BOOLEAN :
          handle_request(m, p, h, b, f, FALSE)
    /\ \/ watched' = watched
       \/ /\ watched = NoRequest
          /\ Added # {}
          /\ watched' \in Added
    /\ UNCHANGED outsideLive

\* a call awaited by a request that is not the one followed returns
OtherReturns ==
    /\ \E r \in BagToSet(inflight) :
          /\ r # watched \/ CopiesIn(r, inflight) > 1
          /\ \/ \E res \in LiveForwardResults : forward_returns(r, res)
             \/ \E f \in BOOLEAN : save_returns(r, f)
             \/ \E res \in LiveForwardResults : _forward_non_cacheable(r, res)
    /\ watched' = watched
    /\ UNCHANGED outsideLive

\* the call awaited by the request followed returns or fails: the request is
\* answered, or goes on to its save
WatchedReturns ==
    /\ watched # NoRequest
    /\ \/ \E res \in LiveForwardResults : forward_returns(watched, res)
       \/ \E f \in BOOLEAN : save_returns(watched, f)
       \/ \E res \in LiveForwardResults : _forward_non_cacheable(watched, res)
    /\ watched' = IF out'.valid THEN NoRequest
                  ELSE IF Added # {} THEN CHOOSE r \in Added : TRUE
                  ELSE watched
    /\ UNCHANGED outsideLive

Expires ==
    /\ \E k \in DOMAIN store : Expire(k)
    /\ watched' = watched
    /\ UNCHANGED outsideLive

LiveNext ==
    \/ Arrives
    \/ OtherReturns
    \/ WatchedReturns
    \/ Expires

LiveSpec == Init /\ [][LiveNext]_vars /\ WF_vars(WatchedReturns)

-----------------------------------------------------------------------------
(* KeySpec: generate_key applied to arguments that are changed in the ways  *)
(* that must not change the key                                             *)

KeyMethods == {"GET", "get", "POST"}

KeyUrls == {"/items?id=1", "/"}

KeyHeaderNames ==
    {"Accept", "accept", "ACCEPT", "Accept-Encoding", "accept-encoding",
     "Host", "host"}

KeyHeaderValues == {"gzip", "json"}

Relevant(name) ==
    \E i \in 1..Len(relevant_headers) : lower(name) = relevant_headers[i]

\* the dicts of at most n entries
RECURSIVE Dicts(_)
Dicts(n) ==
    IF n = 0 THEN { <<>> }
    ELSE LET shorter == Dicts(n - 1)
         IN  shorter \cup
             { Append(d, <<k, v>>) :
                 d \in {x \in shorter : Len(x) = n - 1},
                 k \in KeyHeaderNames, v \in KeyHeaderValues }

WellFormedDict(d) == \A i, j \in 1..Len(d) : d[i][1] = d[j][1] => i = j

KeyInit ==
    /\ DispatcherInit
    /\ PureIdle
    /\ StoreIdle
    /\ LiveIdle
    /\ kMethod \in KeyMethods
    /\ kUrl \in KeyUrls
    /\ kHeaders \in {d \in Dicts(MaxKeyHeaders) : WellFormedDict(d)}
    /\ kKey0 = generate_key(kMethod, kUrl, kHeaders)
    /\ kKey = kKey0
    /\ kLast = "none"

Rekey(headers, what) ==
    /\ kHeaders' = headers
    /\ kKey' = generate_key(kMethod, kUrl, headers)
    /\ kLast' = what
    /\ UNCHANGED <<kMethod, kUrl, kKey0>>
    /\ UNCHANGED outsideKey

\* the name of one header is sent in another casing
Recase(i, name) ==
    /\ i \in 1..Len(kHeaders)
    /\ name # kHeaders[i][1]
    /\ lower(name) = lower(kHeaders[i][1])
    /\ ~DictHas(kHeaders, name)
    /\ Rekey([kHeaders EXCEPT ![i] = <<name, kHeaders[i][2]>>], "recase")

\* a header that is not a relevant one is added
AddIrrelevant(name, value) ==
    /\ Len(kHeaders) < MaxKeyHeaders
    /\ ~Relevant(name)
    /\ ~DictHas(kHeaders, name)
    /\ Rekey(Append(kHeaders, <<name, value>>), "add")

\* a header that is not a relevant one is removed
RemoveIrrelevant(i) ==
    /\ i \in 1..Len(kHeaders)
    /\ ~Relevant(kHeaders[i][1])
    /\ Rekey(DictPop(kHeaders, kHeaders[i][1]), "remove")

\* the value of a header that is not a relevant one is changed
ChangeIrrelevant(i, value) ==
    /\ i \in 1..Len(kHeaders)
    /\ ~Relevant(kHeaders[i][1])
    /\ value # kHeaders[i][2]
    /\ Rekey(DictSet(kHeaders, kHeaders[i][1], value), "change")

KeyNext ==
    \/ \E i \in 1..MaxKeyHeaders, name \in KeyHeaderNames : Recase(i, name)
    \/ \E name \in KeyHeaderNames, value \in KeyHeaderValues : AddIrrelevant(name, value)
    \/ \E i \in 1..MaxKeyHeaders : RemoveIrrelevant(i)
    \/ \E i \in 1..MaxKeyHeaders, value \in KeyHeaderValues : ChangeIrrelevant(i, value)

KeySpec == KeyInit /\ [][KeyNext]_vars

-----------------------------------------------------------------------------
(* PureSpec: the functions of the program that keep no state, each applied  *)
(* to arguments drawn from a bounded set                                    *)

\* the dicts of at most n entries, with keys among names and values among values
RECURSIVE DictsOf(_, _, _)
DictsOf(names, values, n) ==
    IF n = 0 THEN { <<>> }
    ELSE LET shorter == DictsOf(names, values, n - 1)
         IN  shorter \cup
             { Append(d, <<k, v>>) :
                 d \in {x \in shorter : Len(x) = n - 1 /\ WellFormedDict(x)},
                 k \in names,
                 v \in values }

\* generate_key: two calls, to compare their keys.  The names differ in more
\* than their casing, so that a dict has one value for a relevant header.
PairMethods == {"GET", "get", "POST"}
PairUrls == {"/"}
PairHeaderNames == {"Accept", "accept-encoding"}
PairHeaderValues == {"a", "b", "a|accept-encoding:b"}

KeyArguments ==
    { [method |-> m, url |-> u, headers |-> h] :
        m \in PairMethods, u \in PairUrls,
        h \in {d \in DictsOf(PairHeaderNames, PairHeaderValues, MaxHeaders) :
                  WellFormedDict(d)} }

KeyPairs ==
    { [fn |-> "generate_key", applied |-> FALSE, a |-> a, b |-> b] :
        a \in KeyArguments, b \in KeyArguments }

generate_keys ==
    /\ call.fn = "generate_key" /\ ~call.applied
    /\ call' = [fn |-> "generate_key", applied |-> TRUE,
                a |-> call.a, b |-> call.b,
                string_a |-> key_string(call.a.method, call.a.url, call.a.headers),
                string_b |-> key_string(call.b.method, call.b.url, call.b.headers),
                key_a |-> generate_key(call.a.method, call.a.url, call.a.headers),
                key_b |-> generate_key(call.b.method, call.b.url, call.b.headers)]
    /\ UNCHANGED outsidePure

\* HTTPClient.forward_request: the headers it sends for the headers it is given
OutboundHeaderNames ==
    {"Host", "HOST", "host", "Connection", "TE", "Transfer-Encoding",
     "Upgrade", "X-Custom", "Accept-Encoding"}
OutboundHeaderValues == {"v"}

Forwards ==
    { [fn |-> "forward_request", applied |-> FALSE,
       path |-> "/items?id=1", method |-> m, headers |-> h, body |-> <<>>] :
        m \in {"GET", "post"},
        h \in {d \in DictsOf(OutboundHeaderNames, OutboundHeaderValues, MaxHeaders) :
                  WellFormedDict(d)} }

forward ==
    /\ call.fn = "forward_request" /\ ~call.applied
    /\ call' = [fn |-> "forward_request", applied |-> TRUE,
                path |-> call.path, method |-> call.method,
                headers |-> call.headers, body |-> call.body,
                sanitized |-> _sanitize_headers(call.headers),
                sent |-> forward_request(call.path, call.method, call.headers,
                                         call.body)]
    /\ UNCHANGED outsidePure

\* _build_response and _build_response_from_cache: the response built from
\* the headers and the body of the origin, or of a stored entry
InboundHeaderNames ==
    {"Content-Type", "content-type", "Vary", "Set-Cookie", "X-Secret",
     "X-Cache", "x-cache", "Content-Length", "content-length"}
InboundHeaderValues == {"99", "HIT"}
InboundBodies == { <<>>, <<104, 105>>, <<255>> }

Builds ==
    { [fn |-> f, applied |-> FALSE,
       status_code |-> s, headers |-> h, body |-> b, cache_hit |-> c] :
        f \in {"_build_response", "_build_response_from_cache"},
        s \in Statuses, b \in InboundBodies, c \in BOOLEAN,
        h \in {d \in DictsOf(InboundHeaderNames, InboundHeaderValues, MaxHeaders) :
                  WellFormedDict(d)} }

build ==
    /\ call.fn \in {"_build_response", "_build_response_from_cache"}
    /\ ~call.applied
    /\ call' = [fn |-> call.fn, applied |-> TRUE,
                status_code |-> call.status_code, headers |-> call.headers,
                body |-> call.body, cache_hit |-> call.cache_hit,
                response |->
                    IF call.fn = "_build_response"
                    THEN _build_response(call.status_code, call.headers,
                                         call.body, call.cache_hit)
                    ELSE _build_response_from_cache(
                             CachedResponse(call.status_code, call.headers, call.body),
                             call.cache_hit)]
    /\ UNCHANGED outsidePure

\* the storage encoding: a CachedResponse encoded as set encodes it and
\* decoded as get decodes it
RECURSIVE BytesOf(_, _)
BytesOf(values, n) ==
    IF n = 0 THEN { <<>> }
    ELSE LET shorter == BytesOf(values, n - 1)
         IN  shorter \cup
             { Append(b, v) : b \in {x \in shorter : Len(x) = n - 1}, v \in values }

EncodedStatuses == {200, 404}
EncodedHeaderNames == {"Content-Type", "Set-Cookie"}
EncodedHeaderValues == {"a"}
EncodedBytes == {0, 104, 255}

Encodes ==
    { [fn |-> "to_dict", applied |-> FALSE,
       value |-> CachedResponse(s, h, b)] :
        s \in EncodedStatuses,
        h \in {d \in DictsOf(EncodedHeaderNames, EncodedHeaderValues, MaxHeaders) :
                  WellFormedDict(d)},
        b \in BytesOf(EncodedBytes, MaxBody) }

round_trip ==
    /\ call.fn = "to_dict" /\ ~call.applied
    /\ LET serialized == json_dumps(to_dict(call.value))
           cached_dict == json_loads(serialized)
           saved == set(<< >>, TRUE, "k", call.value, SAVE_TTL, FALSE)
       IN  call' = [fn |-> "to_dict", applied |-> TRUE,
                    value |-> call.value,
                    serialized |-> serialized,
                    loaded |-> cached_dict,
                    decoded |-> from_dict(cached_dict.value),
                    fetched |-> get(saved.store, TRUE, "k", FALSE, FALSE)]
    /\ UNCHANGED outsidePure

PureInit ==
    /\ DispatcherInit
    /\ KeyIdle
    /\ StoreIdle
    /\ LiveIdle
    /\ \/ call \in KeyPairs
       \/ call \in Forwards
       \/ call \in Builds
       \/ call \in Encodes

PureNext ==
    \/ generate_keys
    \/ forward
    \/ build
    \/ round_trip

PureSpec == PureInit /\ [][PureNext]_vars

-----------------------------------------------------------------------------
(* StoreSpec: a RedisCache from its construction on, with the operations    *)
(* made on it one at a time, and a Redis keyspace that other writers share  *)

StoreKeys == {"k1", "k2"}

StoreValues ==
    { CachedResponse(200, << <<"Content-Type", "text/plain">> >>, <<104, 105>>),
      CachedResponse(404, <<>>, <<255>>) }

\* the ttl argument of set: None (0) or a number of seconds
StoreTtls == {0, SAVE_TTL}

\* stored texts that do not decode into a CachedResponse: text that is not
\* JSON, an object without "body", an object whose body is not whole base64
CorruptTexts ==
    [ malformed |-> [wellformed |-> FALSE, value |-> to_dict(NoneCached)],
      missing   |-> json_dumps([to_dict(NoneCached) EXCEPT
                                   !.fields = {"status_code", "headers"}]),
      bad_body  |-> json_dumps([to_dict(NoneCached) EXCEPT !.body = <<26, 6, 8>>]) ]

\* how the text stored under a prefixed key decodes: "absent", "valid", or
\* the name of its corruption
Decodes(st, k) ==
    IF k \notin DOMAIN st THEN "absent"
    ELSE IF ~st[k].data.wellformed THEN "malformed"
    ELSE IF st[k].data.value.fields # AllFields THEN "missing"
    ELSE IF b64decode(st[k].data.value.body).raised THEN "bad_body"
    ELSE "valid"

\* the state after RedisCache.__init__
StoreInit ==
    /\ store = << >>
    /\ redis = FALSE
    /\ inflight = EmptyBag
    /\ out = NoResponse
    /\ lastSaved = << >>
    /\ KeyIdle
    /\ PureIdle
    /\ StoreIdle
    /\ LiveIdle

\* RedisCache.intialize: the client is set, then pinged
intialize(ping_fails) ==
    /\ redis' = TRUE
    /\ ret' = [op |-> "intialize", raised |-> ping_fails]
    /\ UNCHANGED store
    /\ UNCHANGED outsideStore

\* close without the test of _redis: the methods of None are called when no
\* client is set
close_unguarded ==
    /\ redis' = FALSE
    /\ ret' = [op |-> "close", raised |-> ~redis, was_open |-> redis,
               again |-> ret.op = "close"]
    /\ UNCHANGED store
    /\ UNCHANGED outsideStore

\* RedisCache.close: with a client set, the client and its pool are closed and
\* both fields are reset to None; without one, nothing is done.  ret records
\* whether a client was set and whether the call before was a close too.
close ==
    /\ redis' = (IF redis THEN FALSE ELSE redis)
    /\ ret' = [op |-> "close", raised |-> FALSE, was_open |-> redis,
               again |-> ret.op = "close"]
    /\ UNCHANGED store
    /\ UNCHANGED outsideStore

\* a call of RedisCache.get
store_get(key, send_fails, delete_fails) ==
    LET r == get(store, redis, key, send_fails, delete_fails)
    IN  /\ store' = r.store
        /\ ret' = [op |-> "get", key |-> key, raised |-> r.raised,
                   found |-> r.found, value |-> r.value,
                   initialized |-> redis, send_failed |-> send_fails,
                   delete_failed |-> delete_fails,
                   before |-> Decodes(store, _get_prefix_with_key(key))]
        /\ UNCHANGED redis
        /\ UNCHANGED outsideStore

\* a call of RedisCache.set
store_set(key, value, ttl, send_fails) ==
    LET r == set(store, redis, key, value, ttl, send_fails)
    IN  /\ store' = r.store
        /\ ret' = [op |-> "set", key |-> key, raised |-> r.raised,
                   value |-> value, ttl |-> ttl,
                   initialized |-> redis, send_failed |-> send_fails]
        /\ UNCHANGED redis
        /\ UNCHANGED outsideStore

\* another client of the Redis server writes text of its own under a key
Corrupt(key, kind) ==
    /\ store' = With(store, _get_prefix_with_key(key), CorruptTexts[kind], 0)
    /\ ret' = [op |-> "corrupt", key |-> key, kind |-> kind]
    /\ UNCHANGED redis
    /\ UNCHANGED outsideStore

\* the keys of other applications in the same Redis database
ForeignKeys == {"session:1"}

\* another application writes an entry of its own
foreign_set(k) ==
    /\ store' = With(store, k, CorruptTexts.malformed, 0)
    /\ ret' = [op |-> "foreign_set", key |-> k]
    /\ UNCHANGED redis
    /\ UNCHANGED outsideStore

\* the entries of st under the keys in ks
Entries(st, ks) == [k \in (DOMAIN st) \cap ks |-> st[k]]

\* a call of RedisCache.clear: by CachingProxyServer.clear_cache, on the
\* server's store, or by clear_cache_command, on a RedisCache just made
store_clear(scan_fails) ==
    LET r == clear(store, redis, StoreKeys, scan_fails)
        keys == scan(store, CACHE_KEY_PREFIX, StoreKeys)
    IN  /\ store' = r.store
        /\ ret' = [op |-> "clear", raised |-> r.raised, error |-> r.error,
                   initialized |-> redis, scan_failed |-> scan_fails,
                   matching |-> Cardinality(keys),
                   others |-> Entries(store, (DOMAIN store) \ keys)]
        /\ UNCHANGED redis
        /\ UNCHANGED outsideStore

StoreNext ==
    \/ \E f \in BOOLEAN : intialize(f)
    \/ close
    \/ \E k \in StoreKeys, f \in BOOLEAN, g \in BOOLEAN : store_get(k, f, g)
    \/ \E k \in StoreKeys, v \in StoreValues, l \in StoreTtls, f \in BOOLEAN :
          store_set(k, v, l, f)
    \/ \E k \in StoreKeys, c \in DOMAIN CorruptTexts : Corrupt(k, c)
    \/ \E k \in ForeignKeys : foreign_set(k)
    \/ \E f \in BOOLEAN : store_clear(f)

StoreSpec == StoreInit /\ [][StoreNext]_vars

-----------------------------------------------------------------------------
(* The dispatcher on a Redis keyspace that other clients write to: an entry *)
(* of the cache may hold text that does not decode into a CachedResponse.   *)

\* the texts written by other clients: one that is not JSON, which get
\* deletes, and one that is JSON but no CachedResponse, which get leaves
Garblings == {"malformed", "bad_body"}

\* another client of the Redis server overwrites an entry of the cache
Garble(k, kind) ==
    /\ k \in DOMAIN store
    /\ store' = With(store, k, CorruptTexts[kind], 0)
    /\ lastSaved' = [x \in (DOMAIN lastSaved) \ {k} |-> lastSaved[x]]
    /\ out' = NoResponse
    /\ UNCHANGED <<redis, inflight>>

FrameNext ==
    \/ \E m \in Methods, p \in Paths, h \in RequestHeaders,
          b \in LiveRequestBodies, f \in BOOLEAN, g \in BOOLEAN :
          handle_request(m, p, h, b, f, g) /\ UNCHANGED outsideDispatcher
    \/ \E r \in BagToSet(inflight), res \in LiveForwardResults :
          forward_returns(r, res) /\ UNCHANGED outsideDispatcher
    \/ \E r \in BagToSet(inflight), f \in BOOLEAN :
          save_returns(r, f) /\ UNCHANGED outsideDispatcher
    \/ \E r \in BagToSet(inflight), res \in LiveForwardResults :
          _forward_non_cacheable(r, res) /\ UNCHANGED outsideDispatcher
    \/ \E r \in BagToSet(inflight) : cancelled(r) /\ UNCHANGED outsideDispatcher
    \/ \E k \in DOMAIN store : Expire(k) /\ UNCHANGED outsideDispatcher
    \/ \E k \in DOMAIN store, c \in Garblings :
          Garble(k, c) /\ UNCHANGED outsideDispatcher

FrameSpec == Init /\ [][FrameNext]_vars

-----------------------------------------------------------------------------
(* The properties *)

IsGet(o) == upper(o.method) = "GET"

\* the value of the response's X-Cache header; "" when it has none
XCache(resp) ==
    IF DictHas(resp.headers, CACHE_HIT_HEADER)
    THEN DictGet(resp.headers, CACHE_HIT_HEADER)
    ELSE ""

\* out is the response to a GET that missed and whose forward returned
GetMissAnswered(o) ==
    /\ o.valid /\ IsGet(o) /\ o.lookup = "miss"
    /\ o.step \in {"forward_returns", "save_returns"}
    /\ o.origin.ok

\* out is the reply of the store's get for a GET
Lookup(o) == o.step = "handle_request" /\ IsGet(o)

\* C1, as stated: a GET whose key has no entry and whose forward returns 200
\* with body B is answered 200, B, X-Cache: MISS, and a later GET that derives
\* the same key (here the very next step, so that nothing expires in between)
\* is answered 200, B, X-Cache: HIT without a call of the forwarder.
C1_MissThenAlwaysHit ==
    /\ [](GetMissAnswered(out) /\ out.entry_absent /\ out.origin.status = 200
            => /\ out.response.status = 200
               /\ out.response.body = out.origin.body
               /\ XCache(out.response) = CACHE_MISS_VALUE)
    /\ [][ (/\ GetMissAnswered(out) /\ out.entry_absent /\ out.origin.status = 200
            /\ Lookup(out') /\ out'.cache_key = out.cache_key)
           => /\ out'.valid
              /\ out'.response.status = 200
              /\ out'.response.body = out.origin.body
              /\ XCache(out'.response) = CACHE_HIT_VALUE
              /\ out'.forward_calls = 0 ]_vars

\* C1, amended: a GET that missed and whose forward returns 200 with body B is
\* answered 200, B, X-Cache: MISS; and a GET whose lookup does not fail and
\* whose key holds the entry of the latest successful save, of body B, not
\* expired since, is answered 200, B, X-Cache: HIT without a call of the
\* forwarder.
C1_MissThenHitWhileStored ==
    /\ (GetMissAnswered(out) /\ out.origin.status = 200
          => /\ out.response.status = 200
             /\ out.response.body = out.origin.body
             /\ XCache(out.response) = CACHE_MISS_VALUE)
    /\ \A B \in Bodies :
          (Lookup(out) /\ ~out.get_failed /\ out.saved_at_lookup = {B})
          => /\ out.valid
             /\ out.response.status = 200
             /\ out.response.body = B
             /\ XCache(out.response) = CACHE_HIT_VALUE
             /\ out.forward_calls = 0

\* a GET is answered from the entry an earlier GET saved
C1_Witness ==
    /\ Lookup(out) /\ out.valid /\ ~out.get_failed
    /\ out.saved_at_lookup = {<<255>>}
    /\ out.response.body = <<255>>
    /\ XCache(out.response) = CACHE_HIT_VALUE

\* C2: a request whose method is not GET calls the forwarder once, neither
\* reads nor writes the store, and its response carries X-Cache: MISS.
C2_NonGetBypassesStore ==
    (out.valid /\ ~IsGet(out))
    => /\ out.forward_calls = 1
       /\ out.store_reads = 0 /\ out.store_writes = 0
       /\ XCache(out.response) = CACHE_MISS_VALUE

\* C3: when the forward of a non-GET request fails, the response has status
\* 502, carries the failure's description and X-Cache: MISS.
C3_NonGetFailureIs502Miss ==
    (out.valid /\ ~IsGet(out) /\ ~out.origin.ok)
    => /\ out.response.status = 502
       /\ out.response.text = "Bad Gateway: " \o out.origin.error
       /\ XCache(out.response) = CACHE_MISS_VALUE

\* C4: when the forward of a GET that missed fails, the response has status
\* 502 and X-Cache: MISS.
C4_GetFailureIs502Miss ==
    (out.valid /\ IsGet(out) /\ out.step = "forward_returns" /\ ~out.origin.ok)
    => /\ out.response.status = 502
       /\ XCache(out.response) = CACHE_MISS_VALUE

C4_Witness ==
    /\ out.valid /\ IsGet(out) /\ out.lookup = "miss"
    /\ out.step = "forward_returns" /\ ~out.origin.ok
    /\ out.origin.error = "timeout"
    /\ out.response.status = 502

\* the three responses the dispatcher may return
OriginFiltered(o) ==
    /\ o.origin.ok
    /\ o.response = _build_response(o.origin.status, o.origin.headers,
                                    o.origin.body, FALSE)

Reconstructed(o) ==
    /\ o.lookup = "hit"
    /\ o.response = _build_response_from_cache(o.cached, TRUE)

BadGateway(o) == o.response.status = 502

\* C5: every response the dispatcher returns is the origin's filtered response,
\* a response rebuilt from a stored entry, or a 502, and has the header X-Cache
\* with value HIT or MISS; no step returns a response for a request that was
\* answered, and none raises instead of answering.
C5_OneResponseWithXCache ==
    /\ ~out.raised
    /\ out.valid
       => /\ OriginFiltered(out) \/ Reconstructed(out) \/ BadGateway(out)
          /\ XCache(out.response) \in {CACHE_HIT_VALUE, CACHE_MISS_VALUE}

\* C6: when the save of a cacheable response fails, the response is the one
\* returned when the save succeeds: the origin's status and body, X-Cache: MISS.
C6_SaveFailureKeepsResponse ==
    (out.step = "save_returns" /\ out.save_failed)
    => /\ out.valid
       /\ out.response.status = out.origin.status
       /\ out.response.body = out.origin.body
       /\ XCache(out.response) = CACHE_MISS_VALUE
       /\ out.response = _build_response(out.origin.status, out.origin.headers,
                                         out.origin.body, FALSE)

C6_Witness ==
    /\ out.step = "save_returns" /\ out.save_failed /\ out.valid
    /\ out.response.status = 200
    /\ _get_prefix_with_key(out.cache_key) \notin DOMAIN store

\* C7: on a GET miss the save is called if and only if the origin's status is
\* 200, whatever the origin's headers; no response of another status is stored.
C7_SaveIffStatus200 ==
    /\ (out.step = "forward_returns" /\ out.origin.ok)
          => (out.save_called <=> out.origin.status = 200)
    /\ out.step = "save_returns" => out.origin.status = 200
    /\ \A r \in BagToSet(inflight) : r.pc = "save" => r.status = 200
    /\ \A k \in DOMAIN store : store[k].data.value.status_code = 200

\* a 200 response with Set-Cookie and Cache-Control: no-store has been saved
C7_Witness ==
    /\ out.step = "save_returns" /\ ~out.save_failed
    /\ out.origin.status = 200
    /\ DictHas(out.origin.headers, "Set-Cookie")
    /\ DictGet(out.origin.headers, "Cache-Control") = "no-store"
    /\ _get_prefix_with_key(out.cache_key) \in DOMAIN store

\* C8: a response built on a store hit has status 200 and X-Cache: HIT, and
\* its body is the body of the entry stored under the request's key.
C8_HitResponse ==
    out.lookup = "hit"
    => /\ out.valid
       /\ out.response.status = 200
       /\ XCache(out.response) = CACHE_HIT_VALUE
       /\ LET k == _get_prefix_with_key(out.cache_key)
          IN  /\ k \in DOMAIN store
              /\ b64encode(out.response.body) = store[k].data.value.body

C8_Witness ==
    /\ out.lookup = "hit" /\ out.valid
    /\ out.response.status = 200
    /\ out.response.body = <<104, 105>>

\* C9: the key of a GET's lookup and save is generate_key of the method, the
\* path with its query and the headers as received.
C9_KeyFromReceivedHeaders ==
    /\ Lookup(out) => out.cache_key = generate_key(out.method, out.path, out.received)
    /\ \A r \in BagToSet(inflight) :
          r.pc = "save" => r.cache_key = generate_key(r.method, r.path, r.received)

\* C10: the key does not change when the casing of header names changes, or
\* when headers other than accept, accept-encoding and accept-language are
\* added, removed or changed.
C10_KeyInvariantToCasingAndIrrelevant ==
    kKey = kKey0

\* the key of a dict with a relevant header, after its name was recased
C10_Witness ==
    /\ kLast = "recase"
    /\ DictHas(kHeaders, "ACCEPT")
    /\ DictHas(kHeaders, "accept-encoding")
    /\ DictHas(kHeaders, "Host")
    /\ kKey = sha256_hexdigest("GET|/items?id=1|accept:json|accept-encoding:gzip")

\* the value a dict has for a relevant header: that of the entries whose name
\* is the header's in any casing
RelevantValue(headers, header) ==
    { headers[i][2] : i \in {j \in 1..Len(headers) : lower(headers[j][1]) = header} }

\* two arguments of generate_key differ in what the key is made of
Differ(a, b) ==
    \/ upper(a.method) # upper(b.method)
    \/ a.url # b.url
    \/ \E i \in 1..Len(relevant_headers) :
          RelevantValue(a.headers, relevant_headers[i])
             # RelevantValue(b.headers, relevant_headers[i])

\* C11: two arguments of generate_key that differ in the upper-cased method,
\* the url or the value of a relevant header give different joined strings,
\* and so different keys.
C11_DistinctInputsDistinctStrings ==
    (call.fn = "generate_key" /\ call.applied /\ Differ(call.a, call.b))
    => /\ call.string_a # call.string_b
       /\ call.key_a # call.key_b

\* the names that must not reach the origin
HopByHop ==
    {"host", "connection", "keep-alive", "proxy-connection",
     "proxy-authenticate", "proxy-authorization", "te", "trailers",
     "transfer-encoding", "upgrade"}

NoHopByHop(headers) == \A i \in 1..Len(headers) : lower(headers[i][1]) \notin HopByHop

\* C12: for every dict of request headers, the headers forward_request sends
\* to the origin contain no hop-by-hop name, in any casing.
C12_NoHopByHopSent ==
    (call.fn = "forward_request" /\ call.applied)
    => /\ NoHopByHop(call.sanitized)
       /\ NoHopByHop(call.sent.headers)

\* a dict with HOST and a header of the client's own was sanitized
C12_Witness ==
    /\ call.fn = "forward_request" /\ call.applied
    /\ DictHas(call.headers, "HOST") /\ DictHas(call.headers, "X-Custom")
    /\ DictHas(call.sent.headers, "X-Custom")
    /\ ~DictHas(call.sent.headers, "HOST")

\* the names of the origin that may reach the client
AllowList ==
    {"content-type", "date", "server", "access-control-allow-origin",
     "strict-transport-security", "x-content-type-options",
     "x-frame-options", "x-xss-protection", "cache-control",
     "age", "cf-cache-status", "cf-ray", "vary"}

\* C13: the headers of a response built from the headers and body of the
\* origin or of a stored entry are headers of the allow-list, each with the
\* value it came with, and one X-Cache and one Content-Length of the
\* dispatcher's own: HIT or MISS as the response is, and the length of the body.
C13_OnlyAllowedHeaders ==
    (call.fn \in {"_build_response", "_build_response_from_cache"} /\ call.applied)
    => LET hs == call.response.headers
           own == {i \in 1..Len(hs) :
                     lower(hs[i][1]) \in {"x-cache", "content-length"}}
       IN  /\ \A i \in (1..Len(hs)) \ own :
                  /\ lower(hs[i][1]) \in AllowList
                  /\ \E j \in 1..Len(call.headers) : call.headers[j] = hs[i]
           /\ {hs[i] : i \in own} =
                  { <<"X-Cache", IF call.cache_hit THEN "HIT" ELSE "MISS">>,
                    <<"Content-Length", str(Len(call.response.body))>> }
           /\ Cardinality(own) = 2
           /\ call.response.body = call.body

\* an origin response with a Content-Type and an X-Cache of its own
C13_Witness ==
    /\ call.fn = "_build_response" /\ call.applied /\ ~call.cache_hit
    /\ call.body = <<104, 105>>
    /\ DictHas(call.headers, "Content-Type")
    /\ DictHas(call.headers, "X-Cache") /\ DictGet(call.headers, "X-Cache") = "HIT"
    /\ DictHas(call.response.headers, "Content-Type")
    /\ DictGet(call.response.headers, "X-Cache") = "MISS"
    /\ DictGet(call.response.headers, "Content-Length") = "2"

\* C14: get never raises: in every state of the store it returns a
\* CachedResponse or absent.
C14_GetNeverRaises ==
    ret.op = "get" => ~ret.raised

\* C15: when the text stored under the key does not decode into a
\* CachedResponse, get returns absent and the entry is gone afterwards.
C15_CorruptEntryPurged ==
    (/\ ret.op = "get" /\ ret.initialized /\ ~ret.send_failed /\ ~ret.delete_failed
     /\ ret.before \in DOMAIN CorruptTexts)
    => /\ ~ret.raised /\ ~ret.found
       /\ _get_prefix_with_key(ret.key) \notin DOMAIN store

\* C16: decoding the storage encoding of a CachedResponse gives back its
\* status, its headers and its body byte for byte, from the dict and the JSON
\* text alone and through a set followed by a get.
C16_RoundTrip ==
    (call.fn = "to_dict" /\ call.applied)
    => /\ ~call.loaded.raised
       /\ ~call.decoded.raised
       /\ call.decoded.value = call.value
       /\ call.fetched.found /\ ~call.fetched.raised
       /\ call.fetched.value = call.value

\* a body of four bytes that are not UTF-8 text, stored as two base64 groups
C16_Witness ==
    /\ call.fn = "to_dict" /\ call.applied
    /\ call.value.body = <<255, 0, 104, 255>>
    /\ call.value.status_code = 404
    /\ DictHas(call.value.headers, "Set-Cookie")
    /\ Len(call.serialized.value.body) = 8
    /\ call.serialized.value.body[8] = Pad
    /\ call.decoded.value.body = <<255, 0, 104, 255>>

\* C17: nothing deduplicates concurrent misses.  A GET that finds no entry
\* under its key forwards, whatever else is in flight; a forward that returns
\* 200 is followed by a save, whatever the store holds by then; and a save
\* that succeeds leaves under the key the response it was given, so that the
\* store holds the response saved last.
C17_NoDedupLastWriteWins ==
    /\ (Lookup(out) /\ out.lookup = "miss")
          => /\ out.forward_calls = 1
             /\ \E r \in BagToSet(inflight) :
                   r.pc = "forward" /\ r.cache_key = out.cache_key
    /\ (out.step = "forward_returns" /\ out.origin.ok /\ out.origin.status = 200)
          => /\ out.save_called
             /\ \E r \in BagToSet(inflight) :
                   r.pc = "save" /\ r.cache_key = out.cache_key
    /\ (out.step = "save_returns" /\ ~out.save_failed)
          => LET k == _get_prefix_with_key(out.cache_key)
             IN  /\ k \in DOMAIN store
                 /\ store[k].data =
                       json_dumps(to_dict(CachedResponse(out.origin.status,
                                                         out.origin.headers,
                                                         out.origin.body)))
    /\ \A k \in DOMAIN store :
          /\ k \in DOMAIN lastSaved
          /\ store[k].data.value.body = b64encode(lastSaved[k])

\* two GETs of one key were in flight together, both missed and both saved:
\* the second save replaced the other body the first had stored
C17_Witness ==
    /\ out.step = "save_returns" /\ ~out.save_failed
    /\ out.entry_absent
    /\ out.origin.body = <<255>>
    /\ out.replaced = {b64encode(<<104, 105>>)}
    /\ store[_get_prefix_with_key(out.cache_key)].data.value.body = b64encode(<<255>>)

\* C18: a request causes at most one call of the forwarder.  A forward that
\* fails and a save that fails are each answered at once, with one call made;
\* a hit is answered with none.
C18_AtMostOneForward ==
    /\ out.forward_calls <= 1
    /\ \A r \in BagToSet(inflight) : r.forward_calls = 1
    /\ (out.step \in {"forward_returns", "_forward_non_cacheable"} /\ ~out.origin.ok)
          => out.valid /\ out.forward_calls = 1
    /\ (out.step = "save_returns" /\ out.save_failed)
          => out.valid /\ out.forward_calls = 1
    /\ out.lookup = "hit" => out.forward_calls = 0

\* a GET whose one forward failed has its 502, while another request waits
C18_Witness ==
    /\ out.step = "forward_returns" /\ ~out.origin.ok
    /\ out.valid /\ out.forward_calls = 1
    /\ out.response.status = 502
    /\ \E r \in BagToSet(inflight) : r.pc = "forward_nc"

\* C19: a request that is received and waits for the forwarder or for the
\* store is one of the requests in flight, and it is answered in the end, on
\* every path, when each call it awaits returns or fails in the end.
C19_EveryRequestResponded ==
    /\ [](watched # NoRequest => watched \in BagToSet(inflight))
    /\ (watched # NoRequest) ~> (watched = NoRequest /\ out.valid)

\* the request followed missed, its forward returned 200, and it waits for
\* its save
C19_Witness ==
    /\ watched # NoRequest
    /\ watched.pc = "save"
    /\ watched \in BagToSet(inflight)
    /\ out.step = "forward_returns" /\ out.save_called

\* C20: the MISS response to a GET whose forward returned a cacheable
\* response is returned by the step that follows the save, never before it; and
\* when the save did not fail, the store holds at that moment the entry under
\* the request's key, with a time to live of 3600.
C20_SavedBeforeResponse ==
    /\ (GetMissAnswered(out) /\ _should_cache_response(out.origin.status,
                                                       out.origin.headers))
          => /\ out.step = "save_returns"
             /\ out.save_called /\ out.store_writes = 1
    /\ (out.step = "save_returns" /\ out.valid /\ ~out.save_failed)
          => LET k == _get_prefix_with_key(out.cache_key)
             IN  /\ XCache(out.response) = CACHE_MISS_VALUE
                 /\ k \in DOMAIN store
                 /\ store[k].ttl = 3600
                 /\ ~json_loads(store[k].data).raised
                 /\ from_dict(json_loads(store[k].data).value).value =
                       CachedResponse(out.origin.status, out.origin.headers,
                                      out.origin.body)

\* the MISS response of a GET is returned while the store holds its entry
C20_Witness ==
    /\ out.step = "save_returns" /\ out.valid /\ ~out.save_failed
    /\ XCache(out.response) = CACHE_MISS_VALUE
    /\ out.response.body = <<104, 105>>
    /\ store[_get_prefix_with_key(out.cache_key)].ttl = 3600
    /\ out.replaced = {}

\* C21: when a GET is cancelled while it waits for the forwarder, the forward
\* is abandoned and the save is skipped: the step writes nothing to the store,
\* returns no response, and leaves the request neither waiting for the
\* forwarder nor for a save, so that no later step writes for it.
C21_CancelSkipsSave ==
    [][ (out'.step = "cancelled" /\ IsGet(out'))
        => /\ store' = store
           /\ ~out'.valid /\ out'.store_writes = 0 /\ ~out'.save_called
           /\ BagCardinality(inflight') = BagCardinality(inflight) - 1
           /\ \A r \in BagToSet(inflight') :
                 CopiesIn(r, inflight') <= CopiesIn(r, inflight) ]_vars

\* a GET that missed was cancelled; nothing is stored and nothing is in flight
C21_Witness ==
    /\ out.step = "cancelled" /\ IsGet(out)
    /\ out.entry_absent
    /\ inflight = EmptyBag
    /\ store = << >>

\* C22: close is idempotent: in every state of the store (never initialized,
\* initialized, closed before) a close does not fail and leaves no client
\* set, and a close that follows a close changes nothing: the connection
\* state and the entries are those the close before it left.
C22_CloseIdempotent ==
    /\ [](ret.op = "close" => ~ret.raised /\ ~redis)
    /\ [][ ret'.op = "close"
            => /\ store' = store
               /\ (ret.op = "close" => redis' = redis /\ ~ret'.was_open) ]_vars

\* a close right after a close, on a store that was initialized and written to
C22_Witness ==
    /\ ret.op = "close" /\ ret.again /\ ~ret.was_open
    /\ ~ret.raised /\ ~redis
    /\ store # << >>

\* two header dicts with the same values under names that differ at most in
\* their casing
SameButCasing(h1, h2) ==
    /\ Len(h1) = Len(h2)
    /\ { <<lower(h1[i][1]), h1[i][2]>> : i \in 1..Len(h1) }
         = { <<lower(h2[i][1]), h2[i][2]>> : i \in 1..Len(h2) }

\* C23: two GETs for the same path with query whose headers have the same
\* values under names that differ only in casing use the same cache key: the
\* key a GET looks up is the key of every GET in flight that differs from it
\* in the casing of header names only.
C23_CasingSharesKey ==
    Lookup(out) =>
        \A r \in BagToSet(inflight) :
            ( /\ upper(r.method) = "GET"
              /\ r.path = out.path
              /\ SameButCasing(r.received, out.received) )
            => r.cache_key = out.cache_key

\* the key under which the request of o is stored
OwnKey(o) == _get_prefix_with_key(o.cache_key)

\* from st to st2 no entry under a key other than k changed
OthersUnchanged(st, st2, k) ==
    \A x \in ((DOMAIN st) \cup (DOMAIN st2)) \ {k} :
        x \in DOMAIN st /\ x \in DOMAIN st2 /\ st2[x] = st[x]

\* o is the response to a request of the kinds that write nothing: a hit, a
\* request that is no GET, a GET whose forward failed, a GET whose origin
\* status is not 200
WritesNothing(o) ==
    /\ o.valid
    /\ \/ o.lookup = "hit"
       \/ ~IsGet(o)
       \/ IsGet(o) /\ o.step = "forward_returns"
             /\ (~o.origin.ok \/ o.origin.status # 200)

\* C24, as stated: a step of a request changes no entry under a key other
\* than the request's own, and a request answered with a hit, a request that
\* is no GET, a GET whose forward fails and a GET whose origin status is not
\* 200 leave the whole store as it was: none of their steps changes it.
C24_RequestLeavesStore ==
    [][ out'.step # "none"
        => /\ OthersUnchanged(store, store', OwnKey(out'))
           /\ (WritesNothing(out') => store' = store /\ ~out'.purged) ]_vars

\* C24, amended: a step of a request changes no entry under a key other than
\* the request's own; a hit and a request that is no GET leave the whole store
\* as it was; a GET whose forward fails or whose origin status is not 200
\* writes nothing, and the one change it can make is that of its lookup, which
\* deletes the entry under its own key when the stored text is not JSON.
C24_RequestLeavesOtherEntries ==
    [][ out'.step # "none"
        => /\ OthersUnchanged(store, store', OwnKey(out'))
           /\ (WritesNothing(out')
                 => /\ store' = store
                    /\ out'.store_writes = 0
                    /\ (out'.purged => IsGet(out') /\ out'.lookup = "miss"))
           /\ (out'.step = "handle_request" /\ store' # store
                 => /\ IsGet(out') /\ out'.purged
                    /\ OwnKey(out') \in DOMAIN store
                    /\ ~store[OwnKey(out')].data.wellformed
                    /\ store' = Without(store, OwnKey(out'))) ]_vars

\* a GET whose lookup deleted the undecodable entry under its key and whose
\* forward then failed, while another key has its entry
C24_Witness ==
    /\ out.valid /\ IsGet(out) /\ out.step = "forward_returns"
    /\ ~out.origin.ok
    /\ out.purged
    /\ OwnKey(out) \notin DOMAIN store
    /\ store # << >>

\* C25: a clear on an initialized store whose scan goes through returns, and
\* after it no entry is left under a key that starts with the cache prefix,
\* however many there were, while the entries under other keys are those from
\* before the call (so that a get for any key finds nothing).
C25_ClearRemovesPrefixed ==
    (ret.op = "clear" /\ ret.initialized /\ ~ret.scan_failed)
    => /\ ~ret.raised
       /\ scan(store, CACHE_KEY_PREFIX, StoreKeys) = {}
       /\ store = ret.others

====
